---- MODULE Spec2Model ----
(***************************************************************************)
(* ShootUp API (src/main.py): the request handlers as sequences of         *)
(* document-store calls on the collections event, media, like, comment and *)
(* userprofile.  Every store call is one atomic step (the store is atomic  *)
(* per call, the handlers use no transaction); a handler's validation and  *)
(* local computation belong to the store call that follows them.           *)
(*                                                                         *)
(* Left out, because no step modelled here reads them: the title, date,    *)
(* location, access, cover_url, challenges and ended fields of an event,   *)
(* the url, media_type and challenge fields of a media, the text of a      *)
(* comment, and the read-only listing endpoints.  The store handle db is   *)
(* configured (the 500 branches are not taken).  A document is a record of *)
(* the fields it has: a profile may lack username, avatar_url, bio or      *)
(* following_events.                                                       *)
(***************************************************************************)
EXTENDS Integers, Sequences, FiniteSets, TLC

\* Documents ever inserted (ObjectIds handed out by the store).
MaxOid == 4
\* Worker threads handling requests.
NumProcs == 2

Procs == 1..NumProcs
Users == {"u1", "u2"}
None == "None"
OptUsernames == {None, "", "Ann"}
OptAvatarUrls == {None, "a.png"}
OptBios == {None, "hi"}

\* random.choices over A-Z0-9 (generate_code); two events may get the same code.
GenCodes == {"PARTY1"}
\* Codes a client may send to join.
InputCodes == {"PARTY1", "party1", "nocode"}

VARIABLES
    db,       \* the document store: one set of documents per collection
    nextOid,  \* the next ObjectId the store hands out
    pc,       \* per worker: the store call its request is at
    req,      \* per worker: the request being handled
    tmp,      \* per worker: the handler's local variables
    res,      \* per worker: the response (status, body)
    pre,      \* observer: the store when the running request arrived
    last,     \* observer: the previous completed request, <<>> if none
    before,   \* observer: the store when the previous completed request arrived
    overlap   \* observer: two toggle-likes of one user have been in flight together

vars == <<db, nextOid, pc, req, tmp, res, pre, last, before, overlap>>

----------------------------------------------------------------------------
\* Strings

\* str.upper() on the codes in play.
Upper(s) ==
    CASE s = "party1" -> "PARTY1"
      [] s = "nocode" -> "NOCODE"
      [] OTHER -> s

\* A 24-digit hex string is <<letter case, the ObjectId it denotes>>; any other
\* string is malformed.
Malformed == <<"malformed", 0>>
HexStrings == ({"lower", "upper"} \X (1..MaxOid)) \cup {Malformed}
\* The strings the API itself hands out (str(ObjectId) is lower case), and junk.
CanonicalStrings == ({"lower"} \X (1..MaxOid)) \cup {Malformed}

\* bson.ObjectId(s): raises on anything but 24 hex digits, accepts either case.
ObjectIdValid(s) == s[1] \in {"lower", "upper"}
ObjectId(s) == s[2]
\* str(ObjectId): lower-case hex.
StrOfObjectId(oid) == <<"lower", oid>>

----------------------------------------------------------------------------
\* The store

\* find_one: the first matching document in natural (insertion) order, as a
\* sequence of zero or one document.
FindOne(docs) ==
    IF docs = {} THEN <<>>
    ELSE <<CHOOSE d \in docs : \A e \in docs : d._id <= e._id>>

\* list(set): the members once each, in an order the caller cannot rely on.
ListsOfSet(S) ==
    {s \in [1..Cardinality(S) -> S] : \A x \in S : \E i \in 1..Cardinality(S) : s[i] = x}

SetOfList(s) == {s[i] : i \in 1..Len(s)}

Max(a, b) == IF a >= b THEN a ELSE b

\* {"$set": fields} on one document: the fields given are written, the others kept.
SetFields(doc, fields) ==
    [k \in DOMAIN doc \cup DOMAIN fields |-> IF k \in DOMAIN fields THEN fields[k] ELSE doc[k]]

EmptyDb == [event |-> {}, media |-> {}, like |-> {}, comment |-> {}, userprofile |-> {}]

NoReq == [op |-> "none", code |-> "", user_id |-> "", username |-> None,
          avatar_url |-> None, bio |-> None, id |-> Malformed]
NoTmp == [event |-> <<>>, media |-> <<>>, like |-> <<>>, delta |-> 0, prof |-> <<>>, joined |-> {}]
NoRes == [status |-> 0, body |-> <<>>]

\* Requests in flight that may still insert a document.
InFlight == Cardinality({q \in Procs : pc[q] \notin {"idle", "done"}})
CanAdmit == nextOid + InFlight <= MaxOid

Init ==
    /\ db = EmptyDb
    /\ nextOid = 1
    /\ pc = [p \in Procs |-> "idle"]
    /\ req = [p \in Procs |-> NoReq]
    /\ tmp = [p \in Procs |-> NoTmp]
    /\ res = [p \in Procs |-> NoRes]
    /\ pre = EmptyDb
    /\ last = <<>>
    /\ before = EmptyDb
    /\ overlap = FALSE

Finish(p, status, body) ==
    /\ pc' = [pc EXCEPT ![p] = "done"]
    /\ res' = [res EXCEPT ![p] = [status |-> status, body |-> body]]

Goto(p, label) ==
    /\ pc' = [pc EXCEPT ![p] = label]
    /\ UNCHANGED res

\* The response is sent; the worker is free again.
respond(p) ==
    /\ pc[p] = "done"
    /\ pc' = [pc EXCEPT ![p] = "idle"]
    /\ req' = [req EXCEPT ![p] = NoReq]
    /\ tmp' = [tmp EXCEPT ![p] = NoTmp]
    /\ res' = [res EXCEPT ![p] = NoRes]
    /\ UNCHANGED <<db, nextOid>>

----------------------------------------------------------------------------
\* POST /api/events

create_event(p, code) ==
    /\ pc[p] = "idle"
    /\ CanAdmit
    /\ LET event_doc == [_id |-> nextOid, code |-> code, participants |-> <<>>]
       IN /\ db' = [db EXCEPT !.event = @ \cup {event_doc}]
          /\ nextOid' = nextOid + 1
          /\ req' = [req EXCEPT ![p] = [NoReq EXCEPT !.op = "create_event"]]
          /\ Finish(p, 200, <<event_doc>>)
    /\ UNCHANGED tmp

----------------------------------------------------------------------------
\* POST /api/events/join

join_event_find_upper(p, code, user_id, username) ==
    /\ pc[p] = "idle"
    /\ CanAdmit
    /\ req' = [req EXCEPT ![p] = [NoReq EXCEPT !.op = "join_event", !.code = code,
                                               !.user_id = user_id, !.username = username]]
    /\ LET event == FindOne({e \in db.event : e.code = Upper(code)})
       IN IF event # <<>>
          THEN /\ tmp' = [tmp EXCEPT ![p].event = event]
               /\ Goto(p, "join_update")
          ELSE /\ tmp' = tmp
               /\ Goto(p, "join_find_exact")
    /\ UNCHANGED <<db, nextOid>>

join_event_find_exact(p) ==
    /\ pc[p] = "join_find_exact"
    /\ LET event == FindOne({e \in db.event : e.code = req[p].code})
       IN IF event # <<>>
          THEN /\ tmp' = [tmp EXCEPT ![p].event = event]
               /\ Goto(p, "join_update")
          ELSE /\ tmp' = tmp
               /\ Finish(p, 404, <<>>)
    /\ UNCHANGED <<db, nextOid, req>>

\* The participants written: set(event.participants) with user_id added.
JoinParticipants(event, user_id) == SetOfList(event.participants) \cup {user_id}

join_event_update(p) ==
    /\ pc[p] = "join_update"
    /\ LET event == tmp[p].event[1]
       IN \E participants \in ListsOfSet(JoinParticipants(event, req[p].user_id)) :
            db' = [db EXCEPT !.event =
                     {IF e._id = event._id THEN [e EXCEPT !.participants = participants] ELSE e
                        : e \in @}]
    /\ Goto(p, "join_upsert")
    /\ UNCHANGED <<nextOid, req, tmp>>

\* The upsert written with "$set": a join overwrites the username of a stored
\* profile.
JoinUpsertProfile_Set(profiles, oid, user_id, username) ==
    LET name == IF username \in {None, ""} THEN "Guest" ELSE username
    IN IF \E d \in profiles : d.user_id = user_id
       THEN {IF d.user_id = user_id
             THEN SetFields(d, [username |-> name, following_events |-> <<>>])
             ELSE d : d \in profiles}
       ELSE profiles \cup {[_id |-> oid, user_id |-> user_id, username |-> name,
                            following_events |-> <<>>]}

\* update_one(..., {"$setOnInsert": ...}, upsert=True): the documents after it.
JoinUpsertProfile(profiles, oid, user_id, username) ==
    IF \E d \in profiles : d.user_id = user_id
    THEN profiles
    ELSE profiles \cup {[_id |-> oid, user_id |-> user_id,
                         username |-> IF username \in {None, ""} THEN "Guest" ELSE username,
                         following_events |-> <<>>]}

join_event_upsert(p) ==
    /\ pc[p] = "join_upsert"
    /\ db' = [db EXCEPT !.userprofile =
                JoinUpsertProfile(@, nextOid, req[p].user_id, req[p].username)]
    /\ nextOid' = IF db'.userprofile = db.userprofile THEN nextOid ELSE nextOid + 1
    /\ Goto(p, "join_refetch")
    /\ UNCHANGED <<req, tmp>>

join_event_refetch(p) ==
    /\ pc[p] = "join_refetch"
    /\ Finish(p, 200, FindOne({e \in db.event : e._id = tmp[p].event[1]._id}))
    /\ UNCHANGED <<db, nextOid, req, tmp>>

----------------------------------------------------------------------------
\* POST /api/media

\* The lookup without the try/except around ObjectId: a malformed id is merely
\* not found.
LookupStatus_NoValidation(docs, id) ==
    IF ~ObjectIdValid(id) THEN 404
    ELSE IF {d \in docs : d._id = ObjectId(id)} = {} THEN 404
    ELSE 200

\* What the lookup of a path or body id ends in: 400 for a malformed id, 404
\* when no document of the collection has it, 200 when one does.
LookupStatus(docs, id) ==
    IF ~ObjectIdValid(id) THEN 400
    ELSE IF FindOne({d \in docs : d._id = ObjectId(id)}) = <<>> THEN 404
    ELSE 200

\* The new media counted as liked by its uploader.
MediaDoc_LikedByUploader(oid, event_id, user_id) ==
    [_id |-> oid, event_id |-> event_id, user_id |-> user_id,
     likes_count |-> 1, comments_count |-> 0]

MediaDoc(oid, event_id, user_id) ==
    [_id |-> oid, event_id |-> event_id, user_id |-> user_id,
     likes_count |-> 0, comments_count |-> 0]

upload_media_find_event(p, event_id, user_id) ==
    /\ pc[p] = "idle"
    /\ CanAdmit
    /\ req' = [req EXCEPT ![p] = [NoReq EXCEPT !.op = "upload_media", !.id = event_id,
                                               !.user_id = user_id]]
    /\ LET status == LookupStatus(db.event, event_id)
       IN IF status = 200 THEN Goto(p, "upload_insert") ELSE Finish(p, status, <<>>)
    /\ UNCHANGED <<db, nextOid, tmp>>

upload_media_insert(p) ==
    /\ pc[p] = "upload_insert"
    /\ LET media_doc == MediaDoc(nextOid, req[p].id, req[p].user_id)
       IN /\ db' = [db EXCEPT !.media = @ \cup {media_doc}]
          /\ Finish(p, 200, <<media_doc>>)
    /\ nextOid' = nextOid + 1
    /\ UNCHANGED <<req, tmp>>

----------------------------------------------------------------------------
\* POST /api/media/{media_id}/like

toggle_like_find_media(p, media_id, user_id) ==
    /\ pc[p] = "idle"
    /\ CanAdmit
    /\ req' = [req EXCEPT ![p] = [NoReq EXCEPT !.op = "toggle_like", !.id = media_id,
                                               !.user_id = user_id]]
    /\ LET status == LookupStatus(db.media, media_id)
       IN IF status = 200
          THEN /\ tmp' = [tmp EXCEPT ![p].media =
                            FindOne({m \in db.media : m._id = ObjectId(media_id)})]
               /\ Goto(p, "toggle_find_like")
          ELSE /\ tmp' = tmp
               /\ Finish(p, status, <<>>)
    /\ UNCHANGED <<db, nextOid>>

\* like_q: the Like documents of this media_id string and user.
LikeQuery(likes, media_id, user_id) ==
    {l \in likes : l.media_id = media_id /\ l.user_id = user_id}

toggle_like_find_like(p) ==
    /\ pc[p] = "toggle_find_like"
    /\ tmp' = [tmp EXCEPT ![p].like = FindOne(LikeQuery(db.like, req[p].id, req[p].user_id))]
    /\ Goto(p, "toggle_write")
    /\ UNCHANGED <<db, nextOid, req>>

toggle_like_write(p) ==
    /\ pc[p] = "toggle_write"
    /\ IF tmp[p].like # <<>>
       THEN /\ db' = [db EXCEPT !.like = {l \in @ : l._id # tmp[p].like[1]._id}]
            /\ nextOid' = nextOid
            /\ tmp' = [tmp EXCEPT ![p].delta = -1]
       ELSE /\ db' = [db EXCEPT !.like = @ \cup {[_id |-> nextOid, media_id |-> req[p].id,
                                                   user_id |-> req[p].user_id]}]
            /\ nextOid' = nextOid + 1
            /\ tmp' = [tmp EXCEPT ![p].delta = 1]
    /\ Goto(p, "toggle_update")
    /\ UNCHANGED req

\* new_count, from the media document read at the start of the request.
NewLikesCount(media, delta) == Max(0, media.likes_count + delta)

toggle_like_update(p) ==
    /\ pc[p] = "toggle_update"
    /\ LET media == tmp[p].media[1]
       IN db' = [db EXCEPT !.media =
                   {IF m._id = media._id
                    THEN [m EXCEPT !.likes_count = NewLikesCount(media, tmp[p].delta)]
                    ELSE m : m \in @}]
    /\ Goto(p, "toggle_refetch")
    /\ UNCHANGED <<nextOid, req, tmp>>

toggle_like_refetch(p) ==
    /\ pc[p] = "toggle_refetch"
    /\ Finish(p, 200, FindOne({m \in db.media : m._id = tmp[p].media[1]._id}))
    /\ UNCHANGED <<db, nextOid, req, tmp>>

----------------------------------------------------------------------------
\* POST /api/media/{media_id}/comments

add_comment_find_media(p, media_id, user_id) ==
    /\ pc[p] = "idle"
    /\ CanAdmit
    /\ req' = [req EXCEPT ![p] = [NoReq EXCEPT !.op = "add_comment", !.id = media_id,
                                               !.user_id = user_id]]
    /\ LET status == LookupStatus(db.media, media_id)
       IN IF status = 200
          THEN /\ tmp' = [tmp EXCEPT ![p].media =
                            FindOne({m \in db.media : m._id = ObjectId(media_id)})]
               /\ Goto(p, "comment_insert")
          ELSE /\ tmp' = tmp
               /\ Finish(p, status, <<>>)
    /\ UNCHANGED <<db, nextOid>>

add_comment_insert(p) ==
    /\ pc[p] = "comment_insert"
    /\ db' = [db EXCEPT !.comment = @ \cup {[_id |-> nextOid, media_id |-> req[p].id,
                                              user_id |-> req[p].user_id]}]
    /\ nextOid' = nextOid + 1
    /\ Goto(p, "comment_update")
    /\ UNCHANGED <<req, tmp>>

NewCommentsCount(media) == media.comments_count + 1

add_comment_update(p) ==
    /\ pc[p] = "comment_update"
    /\ LET media == tmp[p].media[1]
       IN db' = [db EXCEPT !.media =
                   {IF m._id = media._id
                    THEN [m EXCEPT !.comments_count = NewCommentsCount(media)]
                    ELSE m : m \in @}]
    /\ Finish(p, 200, <<"ok">>)
    /\ UNCHANGED <<nextOid, req, tmp>>

----------------------------------------------------------------------------
\* GET /api/user/{user_id}

\* The profile get_user reports: the stored one, else the synthesized default.
DefaultProfile(user_id) ==
    [user_id |-> user_id, username |-> "Guest", avatar_url |-> None, following_events |-> <<>>]

\* get_user that stores the default profile it synthesizes.
get_user_find_profile_Persisting(p, user_id) ==
    /\ pc[p] = "idle"
    /\ CanAdmit
    /\ req' = [req EXCEPT ![p] = [NoReq EXCEPT !.op = "get_user", !.user_id = user_id]]
    /\ LET prof == {d \in db.userprofile : d.user_id = user_id}
       IN IF prof = {}
          THEN /\ tmp' = [tmp EXCEPT ![p].prof = <<DefaultProfile(user_id)>>]
               /\ db' = [db EXCEPT !.userprofile = @ \cup
                           {[_id |-> nextOid, user_id |-> user_id, username |-> "Guest",
                             following_events |-> <<>>]}]
               /\ nextOid' = nextOid + 1
          ELSE /\ tmp' = [tmp EXCEPT ![p].prof = <<CHOOSE d \in prof : TRUE>>]
               /\ UNCHANGED <<db, nextOid>>
    /\ Goto(p, "get_user_joined")

get_user_find_profile(p, user_id) ==
    /\ pc[p] = "idle"
    /\ req' = [req EXCEPT ![p] = [NoReq EXCEPT !.op = "get_user", !.user_id = user_id]]
    /\ LET prof == FindOne({d \in db.userprofile : d.user_id = user_id})
       IN tmp' = [tmp EXCEPT ![p].prof = IF prof = <<>> THEN <<DefaultProfile(user_id)>> ELSE prof]
    /\ Goto(p, "get_user_joined")
    /\ UNCHANGED <<db, nextOid>>

get_user_joined(p) ==
    /\ pc[p] = "get_user_joined"
    /\ tmp' = [tmp EXCEPT ![p].joined =
                 {e \in db.event : req[p].user_id \in SetOfList(e.participants)}]
    /\ Goto(p, "get_user_uploads")
    /\ UNCHANGED <<db, nextOid, req>>

get_user_uploads(p) ==
    /\ pc[p] = "get_user_uploads"
    /\ Finish(p, 200, <<[profile |-> tmp[p].prof[1], joined_events |-> tmp[p].joined,
                         uploads_count |-> Cardinality({m \in db.media :
                                                          m.user_id = req[p].user_id})]>>)
    /\ UNCHANGED <<db, nextOid, req, tmp>>

----------------------------------------------------------------------------
\* PUT /api/user/{user_id}

\* updates: the fields of the payload that are not None.
Updates(username, avatar_url, bio) ==
    LET payload == [username |-> username, avatar_url |-> avatar_url, bio |-> bio]
    IN [k \in {f \in DOMAIN payload : payload[f] # None} |-> payload[k]]

\* update_one({"user_id": user_id}, {"$set": updates}, upsert=True): the first
\* profile of the user gets the fields, or a profile of user_id and the fields
\* alone is inserted.
UpdateUpsertProfile(profiles, oid, user_id, updates) ==
    IF \E d \in profiles : d.user_id = user_id
    THEN LET first == FindOne({d \in profiles : d.user_id = user_id})[1]
         IN {IF d._id = first._id THEN SetFields(d, updates) ELSE d : d \in profiles}
    ELSE profiles \cup {SetFields([_id |-> oid, user_id |-> user_id], updates)}

update_user_upsert(p, user_id, username, avatar_url, bio) ==
    /\ pc[p] = "idle"
    /\ CanAdmit
    /\ req' = [req EXCEPT ![p] = [NoReq EXCEPT !.op = "update_user", !.user_id = user_id,
                                               !.username = username,
                                               !.avatar_url = avatar_url, !.bio = bio]]
    /\ LET updates == Updates(username, avatar_url, bio)
       IN IF DOMAIN updates = {}
          THEN /\ UNCHANGED <<db, nextOid>>
               /\ Finish(p, 200, <<"ok">>)
          ELSE /\ db' = [db EXCEPT !.userprofile =
                           UpdateUpsertProfile(@, nextOid, user_id, updates)]
               /\ nextOid' = IF \E d \in db.userprofile : d.user_id = user_id
                             THEN nextOid ELSE nextOid + 1
               /\ Goto(p, "update_user_find")
    /\ UNCHANGED tmp

update_user_find(p) ==
    /\ pc[p] = "update_user_find"
    /\ Finish(p, 200, FindOne({d \in db.userprofile : d.user_id = req[p].user_id}))
    /\ UNCHANGED <<db, nextOid, req, tmp>>

----------------------------------------------------------------------------
\* Executions

\* The observer of a sequential execution: the store as the running request
\* found it (the store as it is, when none is running).
ObserveSequential(p) ==
    /\ pre' = IF pc[p] = "idle" \/ pc'[p] = "idle" THEN db ELSE pre
    /\ UNCHANGED <<last, before, overlap>>

\* The same observer, who also keeps the previous completed request and the
\* store as that request found it.
ObservePairs(p) ==
    /\ pre' = IF pc[p] = "idle" \/ pc'[p] = "idle" THEN db ELSE pre
    /\ last' = IF pc[p] = "done"
               THEN <<[req |-> req[p], status |-> res[p].status]>>
               ELSE last
    /\ before' = IF pc[p] = "done" THEN pre ELSE before
    /\ UNCHANGED overlap

\* The observer of a concurrent execution: whether a toggle-like ever started
\* while another toggle-like of the same user was in flight.
ObserveConcurrent(p) ==
    /\ overlap' = (overlap \/ (/\ pc[p] = "idle"
                               /\ req'[p].op = "toggle_like"
                               /\ \E q \in Procs \ {p} :
                                    /\ pc[q] \notin {"idle", "done"}
                                    /\ req[q].op = "toggle_like"
                                    /\ req[q].user_id = req'[p].user_id))
    /\ UNCHANGED <<pre, last, before>>

\* Requests one at a time: worker p takes step A while every other worker is idle.
Sequentially(p, A) ==
    /\ \A q \in Procs \ {p} : pc[q] = "idle"
    /\ A
    /\ ObserveSequential(p)

\* The same, observed across pairs of consecutive requests.
SequentiallyInPairs(p, A) ==
    /\ \A q \in Procs \ {p} : pc[q] = "idle"
    /\ A
    /\ ObservePairs(p)

\* Requests in parallel: worker p takes step A whatever the others are at.
Concurrently(p, A) ==
    /\ A
    /\ ObserveConcurrent(p)

\* One worker serves every request of a sequential execution.
SequentialProcs == {CHOOSE p \in Procs : TRUE}

\* Sequential create-event, upload-media and toggle-like requests; ids in any
\* spelling.
NextLikes ==
    \E p \in SequentialProcs :
        \/ \E code \in GenCodes : SequentiallyInPairs(p, create_event(p, code))
        \/ \E event_id \in HexStrings, user_id \in Users :
             SequentiallyInPairs(p, upload_media_find_event(p, event_id, user_id))
        \/ SequentiallyInPairs(p, upload_media_insert(p))
        \/ \E media_id \in HexStrings, user_id \in Users :
             SequentiallyInPairs(p, toggle_like_find_media(p, media_id, user_id))
        \/ SequentiallyInPairs(p, toggle_like_find_like(p))
        \/ SequentiallyInPairs(p, toggle_like_write(p))
        \/ SequentiallyInPairs(p, toggle_like_update(p))
        \/ SequentiallyInPairs(p, toggle_like_refetch(p))
        \/ SequentiallyInPairs(p, respond(p))

SpecLikes == Init /\ [][NextLikes]_vars

\* Sequential requests on events, their participants and profiles.
NextUsers ==
    \E p \in SequentialProcs :
        \/ \E code \in GenCodes : Sequentially(p, create_event(p, code))
        \/ \E code \in InputCodes, user_id \in Users, username \in OptUsernames :
             Sequentially(p, join_event_find_upper(p, code, user_id, username))
        \/ Sequentially(p, join_event_find_exact(p))
        \/ Sequentially(p, join_event_update(p))
        \/ Sequentially(p, join_event_upsert(p))
        \/ Sequentially(p, join_event_refetch(p))
        \/ \E user_id \in Users : Sequentially(p, get_user_find_profile(p, user_id))
        \/ Sequentially(p, get_user_joined(p))
        \/ Sequentially(p, get_user_uploads(p))
        \/ \E user_id \in Users, username \in OptUsernames,
              avatar_url \in OptAvatarUrls, bio \in OptBios :
             Sequentially(p, update_user_upsert(p, user_id, username, avatar_url, bio))
        \/ Sequentially(p, update_user_find(p))
        \/ Sequentially(p, respond(p))

SpecUsers == Init /\ [][NextUsers]_vars

\* Requests in parallel, their store calls interleaving freely.  Clients pass
\* ids as the API returned them.
NextConcurrent ==
    \E p \in Procs :
        \/ \E code \in GenCodes : Concurrently(p, create_event(p, code))
        \/ \E code \in InputCodes, user_id \in Users :
             Concurrently(p, join_event_find_upper(p, code, user_id, None))
        \/ Concurrently(p, join_event_find_exact(p))
        \/ Concurrently(p, join_event_update(p))
        \/ Concurrently(p, join_event_upsert(p))
        \/ Concurrently(p, join_event_refetch(p))
        \/ \E event_id \in CanonicalStrings, user_id \in Users :
             Concurrently(p, upload_media_find_event(p, event_id, user_id))
        \/ Concurrently(p, upload_media_insert(p))
        \/ \E media_id \in CanonicalStrings, user_id \in Users :
             Concurrently(p, toggle_like_find_media(p, media_id, user_id))
        \/ Concurrently(p, toggle_like_find_like(p))
        \/ Concurrently(p, toggle_like_write(p))
        \/ Concurrently(p, toggle_like_update(p))
        \/ Concurrently(p, toggle_like_refetch(p))
        \/ \E media_id \in CanonicalStrings, user_id \in Users :
             Concurrently(p, add_comment_find_media(p, media_id, user_id))
        \/ Concurrently(p, add_comment_insert(p))
        \/ Concurrently(p, add_comment_update(p))
        \/ Concurrently(p, respond(p))

SpecConcurrent == Init /\ [][NextConcurrent]_vars

----------------------------------------------------------------------------
\* Properties

\* No request is between two of its store calls.
Quiescent == \A p \in Procs : pc[p] \in {"idle", "done"}

\* The Like documents whose media_id is the id of media m, as the API spells it.
LikesOf(likes, m) == {l \in likes : l.media_id = StrOfObjectId(m._id)}

CommentsOf(comments, m) == {c \in comments : c.media_id = StrOfObjectId(m._id)}

\* A collection of Like documents without the store's _id: what was liked by whom.
LikePairs(likes) == {<<l.media_id, l.user_id>> : l \in likes}

\* The Like documents of one user that refer to the media with ObjectId oid.
LikesOfUserOn(likes, oid, user_id) ==
    {l \in likes : ObjectId(l.media_id) = oid /\ l.user_id = user_id}

Abs(n) == IF n < 0 THEN -n ELSE n

\* Worker p holds the response of a request of kind op.
Done(p, op) == pc[p] = "done" /\ req[p].op = op

\* C1 (as claimed): between sequential upload-media and toggle-like requests,
\* every media's likes_count is the number of Like documents whose media_id is
\* that media's id.
C1_LikesCountMatchesLikes ==
    Quiescent =>
        \A m \in db.media : m.likes_count = Cardinality(LikesOf(db.like, m))

\* C2 (as claimed): when toggle-likes that overlap in time are always by
\* different users, then once every request has completed each media's
\* likes_count is the number of its Like documents.
C2_DistinctUsersKeepCount ==
    (Quiescent /\ ~overlap) =>
        \A m \in db.media : m.likes_count = Cardinality(LikesOf(db.like, m))

\* C3 (as claimed): in every state, also while toggle-likes interleave, the like
\* collection holds at most one Like document per (media_id, user_id) pair.
C3_OneLikePerPair ==
    \A l1, l2 \in db.like :
        (l1.media_id = l2.media_id /\ l1.user_id = l2.user_id) => l1 = l2

\* The second of two consecutive successful toggle-likes of one user on one media
\* has completed on worker p.
SecondToggle(p) ==
    /\ Done(p, "toggle_like")
    /\ res[p].status = 200
    /\ last # <<>>
    /\ last[1].req.op = "toggle_like"
    /\ last[1].status = 200
    /\ last[1].req.user_id = req[p].user_id
    /\ ObjectId(last[1].req.id) = ObjectId(req[p].id)

\* C4 (as claimed): two consecutive sequential toggle-likes by one user on one
\* media put likes_count and the Like documents back to what they were before
\* the first, and each of the two changes the number of that user's Like
\* documents for the media by exactly one.
C4_ToggleTwiceRestores ==
    \A p \in Procs :
        SecondToggle(p) =>
            LET oid == ObjectId(req[p].id)
                n0 == Cardinality(LikesOfUserOn(before.like, oid, req[p].user_id))
                n1 == Cardinality(LikesOfUserOn(pre.like, oid, req[p].user_id))
                n2 == Cardinality(LikesOfUserOn(db.like, oid, req[p].user_id))
            IN /\ LikePairs(db.like) = LikePairs(before.like)
               /\ Cardinality(db.like) = Cardinality(before.like)
               /\ \A m \in db.media : m._id = oid =>
                    \E m0 \in before.media : m0._id = oid /\ m0.likes_count = m.likes_count
               /\ Abs(n1 - n0) = 1
               /\ Abs(n2 - n1) = 1

\* The event a join with this code finds in a store: the first with the code
\* in upper case, else the first with the code as given.
EventOfCode(events, code) ==
    IF {e \in events : e.code = Upper(code)} # {}
    THEN FindOne({e \in events : e.code = Upper(code)})
    ELSE FindOne({e \in events : e.code = code})

\* A successful join has completed on worker p, of a user who had joined the
\* event of that code before: the event held the user when the request arrived.
SecondJoin(p) ==
    /\ Done(p, "join_event")
    /\ res[p].status = 200
    /\ EventOfCode(pre.event, req[p].code) # <<>>
    /\ req[p].user_id \in SetOfList(EventOfCode(pre.event, req[p].code)[1].participants)

\* C5: a sequential join by a user who has joined with the same code before
\* leaves every event's participants as the earlier join left them (the same
\* members, the user once), and leaves the stored profiles as they were.
C5_JoinIdempotent ==
    \A p \in Procs :
        SecondJoin(p) =>
            /\ {e._id : e \in db.event} = {e._id : e \in pre.event}
            /\ \A e \in db.event : \A e0 \in pre.event :
                 e0._id = e._id =>
                    /\ SetOfList(e.participants) = SetOfList(e0.participants)
                    /\ Len(e.participants) = Cardinality(SetOfList(e.participants))
            /\ req[p].user_id \in SetOfList(res[p].body[1].participants)
            /\ \E d \in pre.userprofile : d.user_id = req[p].user_id
            /\ db.userprofile = pre.userprofile

\* C5 happens: the second join, under a username the stored profile does not
\* carry, of an event that has another participant as well.
C5_Witness ==
    \E p \in Procs :
        /\ SecondJoin(p)
        /\ req[p].username = "Ann"
        /\ \E d \in db.userprofile :
             /\ d.user_id = req[p].user_id
             /\ "username" \in DOMAIN d
             /\ d.username = "Guest"
        /\ Len(res[p].body[1].participants) = 2

\* The media a toggle-like names does not exist, or its id is malformed.
ToggleTargetMissing(p) ==
    \/ ~ObjectIdValid(req[p].id)
    \/ \A m \in pre.media : m._id # ObjectId(req[p].id)

\* C6 (as claimed): toggle-like answers NotFound when media_id is malformed and
\* when no Media has that id, and the store is left as it was.
C6_ToggleMissingIsNotFound ==
    \A p \in Procs :
        (Done(p, "toggle_like") /\ ToggleTargetMissing(p)) =>
            (res[p].status = 404 /\ db = pre)

\* C6 (amended): toggle-like answers InvalidArgument (400) when media_id is
\* malformed and NotFound (404) when media_id is well-formed but no Media has that
\* id; in both cases the store is left as it was, and in no other case does it
\* answer 400 or 404.
C6_ToggleRejects ==
    \A p \in Procs :
        Done(p, "toggle_like") =>
            /\ res[p].status = 400 <=> ~ObjectIdValid(req[p].id)
            /\ res[p].status = 404 <=>
                 (ObjectIdValid(req[p].id) /\ \A m \in pre.media : m._id # ObjectId(req[p].id))
            /\ res[p].status # 200 => db = pre

\* C6 happens: a toggle-like with a malformed id was answered, and now one with
\* a well-formed id of no media is, while a media and a like exist.
C6_Witness ==
    \E p \in Procs :
        /\ Done(p, "toggle_like")
        /\ res[p].status = 404
        /\ last # <<>>
        /\ last[1].req.op = "toggle_like"
        /\ last[1].status = 400
        /\ db.like # {}

\* C7: upload-media answers InvalidArgument (400) for a malformed event_id and
\* NotFound (404) for a well-formed one of no event, leaving the media collection
\* as it was; on success exactly one Media is added, with likes_count = 0 and
\* comments_count = 0; no UserProfile is created in any case.
C7_UploadOutcomes ==
    \A p \in Procs :
        Done(p, "upload_media") =>
            /\ res[p].status = 400 <=> ~ObjectIdValid(req[p].id)
            /\ res[p].status = 404 <=>
                 (ObjectIdValid(req[p].id) /\ \A e \in pre.event : e._id # ObjectId(req[p].id))
            /\ res[p].status # 200 => db.media = pre.media
            /\ res[p].status = 200 =>
                 \E m \in db.media :
                    /\ m \notin pre.media
                    /\ db.media = pre.media \cup {m}
                    /\ m.likes_count = 0
                    /\ m.comments_count = 0
                    /\ m.user_id = req[p].user_id
            /\ db.userprofile = pre.userprofile
            /\ db.event = pre.event

\* C7 happens: an upload was refused with 404 and the next one, to an existing
\* event that has media already, succeeds.
C7_Witness ==
    \E p \in Procs :
        /\ Done(p, "upload_media")
        /\ res[p].status = 200
        /\ pre.media # {}
        /\ last # <<>>
        /\ last[1].req.op = "upload_media"
        /\ last[1].status = 404

\* C8: get-user writes nothing at any of its store calls, and for a user with no
\* stored profile it answers the default profile (username "Guest", no
\* following_events), which is not stored.
C8_GetUserReadsOnly ==
    \A p \in Procs :
        req[p].op = "get_user" =>
            /\ db = pre
            /\ pc[p] = "done" =>
                 /\ res[p].status = 200
                 /\ (\A d \in db.userprofile : d.user_id # req[p].user_id) =>
                      /\ res[p].body[1].profile.user_id = req[p].user_id
                      /\ res[p].body[1].profile.username = "Guest"
                      /\ res[p].body[1].profile.following_events = <<>>
                 /\ (\E d \in db.userprofile : d.user_id = req[p].user_id) =>
                      res[p].body[1].profile \in db.userprofile

\* C8 happens: get-user is answered for a user who has no profile, while
\* another user has one and has joined an event.
C8_Witness ==
    \E p \in Procs :
        /\ Done(p, "get_user")
        /\ \A d \in db.userprofile : d.user_id # req[p].user_id
        /\ db.userprofile # {}
        /\ \E e \in db.event : e.participants # <<>>

\* C9 (as claimed): whenever no add-comment is in progress, also after
\* add-comments whose store calls interleaved, every media's comments_count is
\* the number of its Comment documents.
C9_CommentsCountMatchesComments ==
    (\A p \in Procs : req[p].op = "add_comment" => pc[p] = "done") =>
        \A m \in db.media : m.comments_count = Cardinality(CommentsOf(db.comment, m))

\* C10 (as claimed): no step, also of interleaved joins, removes a participant
\* from an event.
C10_ParticipantsOnlyGrow ==
    [][\A e \in db.event : \E e2 \in db'.event :
          /\ e2._id = e._id
          /\ SetOfList(e.participants) \subseteq SetOfList(e2.participants)]_vars

====
